---- MODULE Spec2Model ----
(***************************************************************************)
(* A model of the cascaded two-port circuit simulator: the driver script   *)
(* MyProg.py, the component classes of Impedence.py, the circuit class of  *)
(* Circ.py and the decoder of the output section of DataExtract.py.        *)
(*                                                                         *)
(* Numbers.  The program computes with Python/numpy floats and complex     *)
(* numbers.  They are modelled as exact complex rationals                  *)
(* (r + i*j) / d, kept in lowest terms with d > 0.  A numpy division by    *)
(* zero yields inf/nan and only warns; every such non-finite result is     *)
(* modelled by the single value NonFinite (d = 0), which every later       *)
(* operation propagates.  A division of Python scalars by zero raises      *)
(* ZeroDivisionError, which the model raises too.                          *)
(***************************************************************************)
EXTENDS Integers, Sequences, FiniteSets, TLC

VARIABLES Txt_Data, pc, freq, frequencies, idx, components, circuit,
          output_file, exc,
          output_data, formatted_Outputs, Outputs, calls

\* the output section, its decoded directive, the result of the last
\* get_Ordered_Outputs call and the number of calls made
outvars == <<output_data, formatted_Outputs, Outputs, calls>>

vars == <<Txt_Data, pc, freq, frequencies, idx, components, circuit,
          output_file, exc, outvars>>

(***************************************************************************)
(* Complex rational arithmetic                                             *)
(***************************************************************************)
Abs(n) == IF n < 0 THEN -n ELSE n

RECURSIVE GCD(_, _)
GCD(a, b) == IF b = 0 THEN a ELSE GCD(b, a % b)

NonFinite == [r |-> 0, i |-> 0, d |-> 0]

IsFinite(x) == x.d # 0

\* (r + i j) / d in lowest terms, d > 0
Cx(r, i, d) ==
    IF d = 0 THEN NonFinite
    ELSE LET g == GCD(GCD(Abs(r), Abs(i)), Abs(d))
             s == IF d < 0 THEN -1 ELSE 1
         IN  [r |-> (s * r) \div g, i |-> (s * i) \div g, d |-> (s * d) \div g]

Num(n) == [r |-> n, i |-> 0, d |-> 1]

Add(x, y) ==
    IF x.d = 0 \/ y.d = 0 THEN NonFinite
    ELSE IF x.r = 0 /\ x.i = 0 THEN y          \* 0 + y
    ELSE IF y.r = 0 /\ y.i = 0 THEN x          \* x + 0
    ELSE LET g == GCD(x.d, y.d)
             a == y.d \div g
             b == x.d \div g
         IN  Cx(x.r * a + y.r * b, x.i * a + y.i * b, x.d * a)

Mul(x, y) ==
    IF x.d = 0 \/ y.d = 0 THEN NonFinite
    ELSE IF x = Num(1) THEN y                  \* 1 y
    ELSE IF y = Num(1) THEN x                  \* x 1
    ELSE IF (x.r = 0 /\ x.i = 0) \/ (y.r = 0 /\ y.i = 0) THEN Num(0)
    ELSE LET x1 == Cx(x.r, x.i, y.d)    \* cross-cancel before multiplying
             y1 == Cx(y.r, y.i, x.d)
         IN  Cx(x1.r * y1.r - x1.i * y1.i, x1.r * y1.i + x1.i * y1.r, x1.d * y1.d)

Conj(x) == [r |-> x.r, i |-> -x.i, d |-> x.d]

Neg(x) == [r |-> -x.r, i |-> -x.i, d |-> x.d]

IsZero(x) == x.d # 0 /\ x.r = 0 /\ x.i = 0

\* 1 / x for numpy scalars: a zero divisor gives a non-finite value
Recip(x) ==
    IF x.d = 0 \/ IsZero(x) THEN NonFinite
    ELSE LET g == GCD(Abs(x.r), Abs(x.i))         \* d conj(x) / |x|^2, cancelled first
             r == x.r \div g
             i == x.i \div g
             n == g * (r * r + i * i)
             h == GCD(x.d, n)
         IN  Cx(r * (x.d \div h), -(i * (x.d \div h)), n \div h)

Div(x, y) == Mul(x, Recip(y))

(***************************************************************************)
(* 2x2 matrices over the complex rationals, numpy's  @                     *)
(***************************************************************************)
Mat(a, b, c, d) == [A |-> a, B |-> b, C |-> c, D |-> d]

Identity == Mat(Num(1), Num(0), Num(0), Num(1))

MatMul(m, n) ==
    Mat(Add(Mul(m.A, n.A), Mul(m.B, n.C)), Add(Mul(m.A, n.B), Mul(m.B, n.D)),
        Add(Mul(m.C, n.A), Mul(m.D, n.C)), Add(Mul(m.C, n.B), Mul(m.D, n.D)))

(***************************************************************************)
(* Impedence.py: the component classes                                     *)
(***************************************************************************)
Min(a, b) == IF a <= b THEN a ELSE b
Max(a, b) == IF a >= b THEN a ELSE b

\* math.pi is a floating-point constant; the model uses the rational 22/7
math_pi == Cx(22, 0, 7)

J == Cx(0, 1, 1)

\* the result of a call: the exception it raised ("none" if it returned) and its value
Returned(v) == [exc |-> "none", val |-> v]
Raised(e) == [exc |-> e, val |-> "none"]

\* a validity check that lets coinciding pins through
Is_valid_Unchecked(Pin1, Pin2) == "none"

\* Impedance.Is_valid: the exception raised, or "none"
Is_valid(Pin1, Pin2) ==
    IF Pin1 = Pin2 THEN "ComponentConnectionException" ELSE "none"

\* an input node that is the smaller pin even when that pin is the ground node
Impedance_Node_ID_Smaller(Pin1, Pin2, Type) ==
    IF Type \notin {"R", "G"} THEN Raised("ComponentTypeException")
    ELSE Returned(Min(Pin1, Pin2))

\* Impedance.Node_ID
Impedance_Node_ID(Pin1, Pin2, Type) ==
    IF Type \notin {"R", "G"} THEN Raised("ComponentTypeException")
    ELSE IF Min(Pin1, Pin2) = 0 THEN Returned(Max(Pin1, Pin2))
    ELSE Returned(Min(Pin1, Pin2))

\* FreqDepImpedence.Node_ID
FreqDepImpedence_Node_ID(Pin1, Pin2, Type) ==
    IF Type \notin {"L", "C"} THEN Raised("ComponentTypeException")
    ELSE IF Min(Pin1, Pin2) = 0 THEN Returned(Max(Pin1, Pin2))
    ELSE Returned(Min(Pin1, Pin2))

\* self.Node_ID(), dispatched on the class of the object under construction
Node_ID(cls, Pin1, Pin2, Type) ==
    IF cls = "FreqDepImpedence" THEN FreqDepImpedence_Node_ID(Pin1, Pin2, Type)
    ELSE Impedance_Node_ID(Pin1, Pin2, Type)

EmptyDict == [k \in {} |-> NonFinite]

\* a constructor that looks at the kind before the pins
Impedance_init_KindFirst(cls, Pin1, Pin2, Value, Type) ==
    IF Node_ID(cls, Pin1, Pin2, Type).exc # "none"
    THEN Raised(Node_ID(cls, Pin1, Pin2, Type).exc)
    ELSE IF Is_valid(Pin1, Pin2) # "none" THEN Raised(Is_valid(Pin1, Pin2))
    ELSE Returned([cls |-> cls, Type |-> Type, Pin1 |-> Pin1, Pin2 |-> Pin2,
                   Value |-> Value, In_node |-> Node_ID(cls, Pin1, Pin2, Type).val,
                   Z |-> EmptyDict])

\* Impedance.__init__ run on an object of class cls (Impedance itself, or
\* FreqDepImpedence through super().__init__)
Impedance_init(cls, Pin1, Pin2, Value, Type) ==
    IF Is_valid(Pin1, Pin2) # "none" THEN Raised(Is_valid(Pin1, Pin2))
    ELSE LET n == Node_ID(cls, Pin1, Pin2, Type)
         IN  IF n.exc # "none" THEN Raised(n.exc)
             ELSE Returned([cls |-> cls, Type |-> Type, Pin1 |-> Pin1, Pin2 |-> Pin2,
                            Value |-> Value, In_node |-> n.val, Z |-> EmptyDict])

\* the keys of a dict filled by iterating over the array Freq
Keys(Freq) == {Freq[k] : k \in 1..Len(Freq)}

\* FreqDepImpedence.Z_GEN; F is a numpy float, so a zero divisor does not raise
Z_GEN(Type, Value, Freq) ==
    IF Type = "C"
    THEN [F \in Keys(Freq) |->
            Recip(Mul(Mul(Mul(Mul(J, Num(2)), math_pi), F), Num(Value)))]
    ELSE IF Type = "L"
    THEN [F \in Keys(Freq) |-> Mul(Mul(Mul(Mul(J, Num(2)), math_pi), F), Num(Value))]
    ELSE EmptyDict

\* FreqDepImpedence.__init__
FreqDepImpedence_init(Pin1, Pin2, Value, Type, Freq) ==
    LET base == Impedance_init("FreqDepImpedence", Pin1, Pin2, Value, Type)
    IN  IF base.exc # "none" THEN base
        ELSE LET n == FreqDepImpedence_Node_ID(Pin1, Pin2, Type)
             IN  IF n.exc # "none" THEN Raised(n.exc)
                 ELSE Returned([base.val EXCEPT !.In_node = n.val,
                                                !.Z = Z_GEN(Type, Value, Freq)])

\* a MAT_GEN that takes a component for a shunt one only when its second pin is 0
Impedance_MAT_GEN_Pin2Only(self, F) ==
    IF self.Type = "R"
    THEN IF self.Pin2 = 0
         THEN IF self.Value = 0 THEN Raised("ZeroDivisionError")
              ELSE Returned(Mat(Num(1), Num(0), Cx(1, 0, self.Value), Num(1)))
         ELSE Returned(Mat(Num(1), Num(self.Value), Num(0), Num(1)))
    ELSE IF self.Type = "G"
    THEN IF self.Pin2 = 0
         THEN Returned(Mat(Num(1), Num(0), Num(self.Value), Num(1)))
         ELSE IF self.Value = 0 THEN Raised("ZeroDivisionError")
              ELSE Returned(Mat(Num(1), Cx(1, 0, self.Value), Num(0), Num(1)))
    ELSE Returned("None")

\* Impedance.MAT_GEN; Value is a Python float, so 1/Value raises on zero.
\* A type other than R and G falls through both branches and returns None.
Impedance_MAT_GEN(self, F) ==
    IF self.Type = "R"
    THEN IF self.Pin1 = 0 \/ self.Pin2 = 0
         THEN IF self.Value = 0 THEN Raised("ZeroDivisionError")
              ELSE Returned(Mat(Num(1), Num(0), Cx(1, 0, self.Value), Num(1)))
         ELSE Returned(Mat(Num(1), Num(self.Value), Num(0), Num(1)))
    ELSE IF self.Type = "G"
    THEN IF self.Pin1 = 0 \/ self.Pin2 = 0
         THEN Returned(Mat(Num(1), Num(0), Num(self.Value), Num(1)))
         ELSE IF self.Value = 0 THEN Raised("ZeroDivisionError")
              ELSE Returned(Mat(Num(1), Cx(1, 0, self.Value), Num(0), Num(1)))
    ELSE Returned("None")

\* FreqDepImpedence.MAT_GEN; Z[F] is a numpy complex, so 1/Z[F] does not raise
FreqDepImpedence_MAT_GEN(self, F) ==
    IF self.Pin1 = 0 \/ self.Pin2 = 0
    THEN Returned(Mat(Num(1), Num(0), Recip(self.Z[F]), Num(1)))
    ELSE Returned(Mat(Num(1), self.Z[F], Num(0), Num(1)))

\* component.MAT_GEN(F), dispatched on the component's class
component_MAT_GEN(self, F) ==
    IF self.cls = "FreqDepImpedence" THEN FreqDepImpedence_MAT_GEN(self, F)
    ELSE Impedance_MAT_GEN(self, F)

(***************************************************************************)
(* Circ.py: the circuit class                                              *)
(***************************************************************************)
\* a key that puts the components without a ground pin first
SortKey_SeriesFirst(x) == <<x.In_node, x.Pin1 = 0 \/ x.Pin2 = 0>>

\* the sort key of Order_components: (In_node, not (Pin1 == 0 or Pin2 == 0))
SortKey(x) == <<x.In_node, ~(x.Pin1 = 0 \/ x.Pin2 = 0)>>

\* Python's order on the key tuples (False < True)
KeyLess(k1, k2) ==
    \/ k1[1] < k2[1]
    \/ k1[1] = k2[1] /\ ~k1[2] /\ k2[2]

\* sorted() is stable: x goes behind every element whose key is not greater
RECURSIVE InsertSorted(_, _)
InsertSorted(s, x) ==
    IF s = <<>> THEN <<x>>
    ELSE IF KeyLess(SortKey(x), SortKey(Head(s))) THEN <<x>> \o s
    ELSE <<Head(s)>> \o InsertSorted(Tail(s), x)

RECURSIVE Sorted(_)
Sorted(s) ==
    IF s = <<>> THEN <<>>
    ELSE InsertSorted(Sorted(SubSeq(s, 1, Len(s) - 1)), s[Len(s)])

\* an ordering that leaves the list as it was given
Order_components_AsGiven(components_list) == components_list

\* Circ.Order_components
Order_components(components_list) == Sorted(components_list)

\* a loop that multiplies from the other side: current_MAT = ABCD @ current_MAT
RECURSIVE Cascade_Reversed(_, _, _)
Cascade_Reversed(current_MAT, comps, F) ==
    IF comps = <<>> THEN current_MAT
    ELSE Cascade_Reversed(MatMul(component_MAT_GEN(Head(comps), F).val, current_MAT),
                          Tail(comps), F)

\* the inner loop of Circ.MAT_GEN: current_MAT = current_MAT @ ABCD, in list order
RECURSIVE Cascade(_, _, _)
Cascade(current_MAT, comps, F) ==
    IF comps = <<>> THEN current_MAT
    ELSE Cascade(MatMul(current_MAT, component_MAT_GEN(Head(comps), F).val),
                 Tail(comps), F)

\* Circ.MAT_GEN: raises what a component's MAT_GEN raises
Circ_MAT_GEN(Freq, ordered) ==
    IF \E k \in 1..Len(Freq), n \in 1..Len(ordered) :
           component_MAT_GEN(ordered[n], Freq[k]).exc # "none"
    THEN Raised("ZeroDivisionError")
    ELSE Returned([F \in Keys(Freq) |-> Cascade(Identity, ordered, F)])

\* Circ.Z_GEN: <<Zin, Zout>>
Circ_Z_GEN(self) ==
    << [F \in Keys(self.Freq) |->
          LET m == self.cascade_ABDC_mat[F]
          IN  Div(Add(Mul(m.A, Num(self.LoadRes)), m.B),
                  Add(Mul(m.C, Num(self.LoadRes)), m.D))],
       [F \in Keys(self.Freq) |->
          LET m == self.cascade_ABDC_mat[F]
          IN  Div(Add(Mul(m.D, Num(self.Rs)), m.B),
                  Add(Mul(m.C, Num(self.Rs)), m.A))] >>

\* a divider that takes the voltage across the source resistance
Vin_CALC_AcrossSource(self) ==
    [F \in Keys(self.Freq) |->
        Mul(Num(self.Vth), Div(Num(self.Rs), Add(self.Zin[F], Num(self.Rs))))]

\* Circ.Vin_CALC
Vin_CALC(self) ==
    [F \in Keys(self.Freq) |->
        Mul(Num(self.Vth), Div(self.Zin[F], Add(self.Zin[F], Num(self.Rs))))]

\* Circ.Iin_CALC
Iin_CALC(self) ==
    [F \in Keys(self.Freq) |-> Div(self.Vin[F], self.Zin[F])]

\* Circ.calculate_VoutIout: <<V2, I2>>
calculate_VoutIout(self) ==
    LET Iout(F) == Div(self.Vin[F],
                       Add(Mul(self.cascade_ABDC_mat[F].A, Num(self.LoadRes)),
                           self.cascade_ABDC_mat[F].B))
    IN  << [F \in Keys(self.Freq) |-> Mul(Num(self.LoadRes), Iout(F))],
           [F \in Keys(self.Freq) |-> Iout(F)] >>

\* Circ.Pin_CALC
Pin_CALC(self) ==
    [F \in Keys(self.Freq) |-> Mul(self.Vin[F], Conj(self.Iin[F]))]

\* Circ.Pout_CALC
Pout_CALC(self) ==
    [F \in Keys(self.Freq) |-> Mul(self.Vout[F], Conj(self.Iout[F]))]

\* a gain that multiplies B by the load instead of dividing
Av_CALC_LoadMultiplied(self) ==
    [F \in Keys(self.Freq) |->
        Recip(Add(self.cascade_ABDC_mat[F].A,
                  Mul(self.cascade_ABDC_mat[F].B, Num(self.LoadRes))))]

\* a gain taken as the ratio of the port voltages
Av_CALC_FromVoltages(self) ==
    [F \in Keys(self.Freq) |-> Div(self.Vout[F], self.Vin[F])]

\* Circ.Av_CALC
Av_CALC(self) ==
    [F \in Keys(self.Freq) |->
        Recip(Add(self.cascade_ABDC_mat[F].A,
                  Div(self.cascade_ABDC_mat[F].B, Num(self.LoadRes))))]

\* Circ.Ai_CALC
Ai_CALC(self) ==
    [F \in Keys(self.Freq) |-> Div(self.Iout[F], self.Iin[F])]

\* a power gain taken as input power over output power
Ap_CALC_Inverted(self) ==
    [F \in Keys(self.Freq) |-> Div(self.Pin[F], self.Pout[F])]

\* Circ.Ap_CALC
Ap_CALC(self) ==
    [F \in Keys(self.Freq) |-> Div(self.Pout[F], self.Pin[F])]

\* Circ.__init__, lines 85-93: each derived map is computed from the fields
\* assigned before it, in the order of the assignments
Init_Ap(self) == self @@ [Ap |-> Ap_CALC(self)]

Init_Ai(self) == Init_Ap(self @@ [Ai |-> Ai_CALC(self)])

Init_Av(self) == Init_Ai(self @@ [Av |-> Av_CALC(self)])

Init_Pout(self) == Init_Av(self @@ [Pout |-> Pout_CALC(self)])

Init_Pin(self) == Init_Pout(self @@ [Pin |-> Pin_CALC(self)])

Init_VoutIout(self) ==
    LET Assign(VI) == Init_Pin(self @@ [Vout |-> VI[1], Iout |-> VI[2]])
    IN  Assign(calculate_VoutIout(self))

Init_Iin(self) == Init_VoutIout(self @@ [Iin |-> Iin_CALC(self)])

Init_Vin(self) == Init_Iin(self @@ [Vin |-> Vin_CALC(self)])

Init_Z(self) ==
    LET Assign(Z) == Init_Vin(self @@ [Zin |-> Z[1], Zout |-> Z[2]])
    IN  Assign(Circ_Z_GEN(self))

\* Circ.__init__, lines 68-83, then the derivations
Init_MAT(self) ==
    LET Assign(MAT) ==
            IF MAT.exc # "none" THEN Raised(MAT.exc)
            ELSE Returned(Init_Z(self @@ [cascade_ABDC_mat |-> MAT.val]))
    IN  Assign(Circ_MAT_GEN(self.Freq, self.components_list_Ordored))

Circ_init(components_list, Freq, LoadRes, Vth, Rs) ==
    Init_MAT([components_list |-> components_list, Freq |-> Freq,
              LoadRes |-> LoadRes, Vth |-> Vth, Rs |-> Rs,
              components_list_Ordored |-> Order_components(components_list)])

(***************************************************************************)
(* MyProg.py: the driver                                                   *)
(***************************************************************************)
\* numpy.linspace(start, end, num) as an array of exact rationals
linspace(start, end, num) ==
    IF num < 0 THEN Raised("ValueError")
    ELSE IF num = 1 THEN Returned(<<start>>)
    ELSE Returned([k \in 1..num |->
                     Add(start, Mul(Cx(k - 1, 0, num - 1), Add(end, Neg(start))))])

\* numpy.log10 on the powers of ten the inputs are drawn from
RECURSIVE log10(_)
log10(x) == IF x = 1 THEN 0 ELSE 1 + log10(x \div 10)

\* 10 ** e for the whole exponents the inputs give rise to
RECURSIVE Pow10(_)
Pow10(e) == IF e = 0 THEN 1 ELSE 10 * Pow10(e - 1)

\* numpy.logspace(start, end, num) == 10 ** linspace(start, end, num)
logspace(start, end, num) ==
    LET e == linspace(Num(start), Num(end), num)
    IN  IF e.exc # "none" THEN e
        ELSE Returned([k \in 1..Len(e.val) |->
                         CASE e.val[k].d = 1 -> Num(Pow10(e.val[k].r))])

HasKeys(d, ks) == ks \subseteq DOMAIN d

\* lines 59 and 63: the sweep, or the exception of the fallback attempt
Sweep(terms) ==
    LET lin == IF HasKeys(terms, {"Fstart", "Fend", "Nfreqs"})
               THEN linspace(terms.Fstart, terms.Fend, terms.Nfreqs)
               ELSE Raised("KeyError")
    IN  IF lin.exc = "none" THEN lin
        ELSE IF HasKeys(terms, {"LFstart", "LFend", "Nfreqs"})
        THEN logspace(log10(terms.LFstart), log10(terms.LFend), terms.Nfreqs)
        ELSE Raised("KeyError")

\* errorexporter: open(file_path, 'w') creates or truncates the file, then
\* output_file.write() is called without its argument, which raises TypeError
errorexporter(file) ==
    [file |-> [exists |-> TRUE, rows |-> 0], exc |-> "TypeError"]

Unbound == [bound |-> FALSE, val |-> <<>>]
Bound(v) == [bound |-> TRUE, val |-> v]

\* lines 73-96: the body of the component loop for one descriptor, with the
\* constructors it called.  The
\* inner try catches ComponentTypeException only, the outer one
\* ComponentConnectionException only, and an exception raised inside the
\* inner handler is seen by the outer try alone.
BuildOne(component_data, Freq) ==
    LET first == Impedance_init("Impedance", component_data.n1, component_data.n2,
                                component_data.value, component_data.type)
        built == IF first.exc = "ComponentTypeException"
                 THEN FreqDepImpedence_init(component_data.n1, component_data.n2,
                                            component_data.value, component_data.type,
                                            Freq)
                 ELSE first
        attempts == IF first.exc = "ComponentTypeException"
                    THEN <<"Impedance", "FreqDepImpedence">>
                    ELSE <<"Impedance">>
    IN  IF built.exc = "ComponentConnectionException"
        THEN [outcome |-> "skipped", comp |-> <<>>, exc |-> "none",
              attempts |-> attempts]
        ELSE IF built.exc # "none"
        THEN [outcome |-> "raised", comp |-> <<>>, exc |-> built.exc,
              attempts |-> attempts]
        ELSE [outcome |-> "appended", comp |-> <<built.val>>, exc |-> "none",
              attempts |-> attempts]

\* lines 56-66
GenerateSweep ==
    /\ pc = "sweep"
    /\ LET sw == Sweep(Txt_Data.formatted_Term_Values)
           fb == errorexporter(output_file)
       IN  IF sw.exc = "none"
           THEN /\ freq' = Bound(sw.val)
                /\ pc' = "bind"
                /\ UNCHANGED <<output_file, exc>>
           ELSE /\ output_file' = fb.file
                /\ freq' = freq
                /\ IF fb.exc = "none"
                   THEN pc' = "bind" /\ exc' = exc
                   ELSE pc' = "crashed" /\ exc' = fb.exc
    /\ UNCHANGED <<Txt_Data, frequencies, idx, components, circuit, outvars>>

\* lines 69-70: frequencies = freq raises NameError when no sweep was bound
BindFrequencies ==
    /\ pc = "bind"
    /\ IF freq.bound
       THEN /\ frequencies' = freq.val
            /\ components' = <<>>
            /\ idx' = 1
            /\ pc' = "loop"
            /\ exc' = exc
       ELSE /\ pc' = "crashed"
            /\ exc' = "NameError"
            /\ UNCHANGED <<frequencies, components, idx>>
    /\ UNCHANGED <<Txt_Data, freq, circuit, output_file, outvars>>

\* lines 71-96: one iteration of the component loop
BuildComponent ==
    /\ pc = "loop"
    /\ idx <= Len(Txt_Data.formatted_Circ_Values)
    /\ LET b == BuildOne(Txt_Data.formatted_Circ_Values[idx], frequencies)
       IN  IF b.outcome = "raised"
           THEN /\ pc' = "crashed"
                /\ exc' = b.exc
                /\ UNCHANGED <<idx, components>>
           ELSE /\ components' = components \o b.comp
                /\ idx' = idx + 1
                /\ UNCHANGED <<pc, exc>>
    /\ UNCHANGED <<Txt_Data, freq, frequencies, circuit, output_file, outvars>>

\* line 102: the arguments are looked up before Circ.__init__ runs
NewCircuit(comps, Freq, terms) ==
    IF ~HasKeys(terms, {"RL", "VT", "RS"}) THEN Raised("KeyError")
    ELSE Circ_init(comps, Freq, terms.RL, terms.VT, terms.RS)

\* lines 99-103 and 106-107: some component was made
ConstructCircuit ==
    /\ pc = "loop"
    /\ idx > Len(Txt_Data.formatted_Circ_Values)
    /\ Len(components) # 0
    /\ LET fb == errorexporter(output_file)
           Assign(c) ==
               IF c.exc = "none"
               THEN /\ circuit' = Bound(c.val)
                    /\ pc' = "export"
                    /\ UNCHANGED <<output_file, exc>>
               ELSE /\ circuit' = circuit
                    /\ output_file' = fb.file
                    /\ IF fb.exc = "none"
                       THEN pc' = "done" /\ exc' = exc
                       ELSE pc' = "crashed" /\ exc' = fb.exc
       IN  Assign(NewCircuit(components, frequencies, Txt_Data.formatted_Term_Values))
    /\ UNCHANGED <<Txt_Data, freq, frequencies, idx, components, outvars>>

\* a driver that constructs the circuit of no component as well
EmptyCircuit_Attempts ==
    /\ pc = "loop"
    /\ idx > Len(Txt_Data.formatted_Circ_Values)
    /\ Len(components) = 0
    /\ LET c == NewCircuit(components, frequencies, Txt_Data.formatted_Term_Values)
           fb == errorexporter(output_file)
       IN  IF c.exc = "none"
           THEN /\ circuit' = Bound(c.val)
                /\ pc' = "export"
                /\ UNCHANGED <<output_file, exc>>
           ELSE /\ circuit' = circuit
                /\ output_file' = fb.file
                /\ pc' = "crashed" /\ exc' = fb.exc
    /\ UNCHANGED <<Txt_Data, freq, frequencies, idx, components, outvars>>

\* lines 108-109: no component was made
EmptyCircuit ==
    /\ pc = "loop"
    /\ idx > Len(Txt_Data.formatted_Circ_Values)
    /\ Len(components) = 0
    /\ LET fb == errorexporter(output_file)
       IN  /\ output_file' = fb.file
           /\ IF fb.exc = "none"
              THEN pc' = "done" /\ exc' = exc
              ELSE pc' = "crashed" /\ exc' = fb.exc
    /\ UNCHANGED <<Txt_Data, freq, frequencies, idx, components, circuit, outvars>>

\* CircResultsExporter.export_to_csv: one data row for each frequency of the sweep
export_to_csv(circ, file) == [exists |-> TRUE, rows |-> Len(circ.Freq)]

\* lines 103-105
Export ==
    /\ pc = "export"
    /\ output_file' = export_to_csv(circuit.val, output_file)
    /\ pc' = "done"
    /\ UNCHANGED <<Txt_Data, freq, frequencies, idx, components, circuit, exc,
                   outvars>>

Next ==
    \/ GenerateSweep
    \/ BindFrequencies
    \/ BuildComponent
    \/ ConstructCircuit
    \/ EmptyCircuit
    \/ Export

(***************************************************************************)
(* The inputs: what DataExtract hands to the driver                        *)
(***************************************************************************)
MaxComps == 3
MaxPin == 9
MaxValue == 2

\* pin numbers: the ground node 0, nodes up to MaxPin, and a negative one
Pins == (-1)..MaxPin

\* the element kinds of the program, and one that is none of them
Kinds == {"R", "G", "L", "C", "X"}

Descriptor(n1, n2, type, value) ==
    [n1 |-> n1, n2 |-> n2, type |-> type, value |-> value]

\* the components of the circuits of several components: series and shunt
\* ones of every kind at the nodes 1 and 2, and misconnected ones
ListDescriptors ==
    { Descriptor(1, 2, "R", 2), Descriptor(1, 0, "R", 2),
      Descriptor(2, 1, "G", 2), Descriptor(2, 0, "G", 2),
      Descriptor(1, 2, "L", 2), Descriptor(2, 0, "C", 2),
      Descriptor(1, 2, "X", 2),
      Descriptor(1, 1, "R", 2), Descriptor(1, 1, "L", 2), Descriptor(1, 1, "X", 2) }

SeqsUpTo(S, n) == UNION {[1..k -> S] : k \in 0..n}

\* a linear sweep over the frequencies 7/88 and 7/44, where 2 pi F is 1/2 and 1
GoodTerms ==
    [VT |-> 5, RS |-> 1, RL |-> 2,
     Fstart |-> Cx(7, 0, 88), Fend |-> Cx(7, 0, 44), Nfreqs |-> 2]

TermsSet ==
    { GoodTerms,
      \* a logarithmic sweep over 1, 10
      [VT |-> 1, RS |-> 2, RL |-> 1, LFstart |-> 1, LFend |-> 10, Nfreqs |-> 2],
      \* a sweep of no frequency
      [VT |-> 5, RS |-> 1, RL |-> 2, Fstart |-> Num(1), Fend |-> Num(2), Nfreqs |-> 0],
      \* no sweep can be generated
      [VT |-> 5, RS |-> 1, RL |-> 2],
      [VT |-> 5, RS |-> 1, RL |-> 2, Fstart |-> Num(1), Fend |-> Num(2), Nfreqs |-> -1],
      \* no load resistance
      [VT |-> 5, RS |-> 1, Fstart |-> Cx(7, 0, 44), Fend |-> Cx(7, 0, 44), Nfreqs |-> 1] }

\* the documented example: one resistor of 50, Vth = 5, Rs = 50, RL = 50, at 1000
ExampleTerms ==
    [VT |-> 5, RS |-> 50, RL |-> 50,
     Fstart |-> Num(1000), Fend |-> Num(1000), Nfreqs |-> 1]

ExampleCircuits ==
    { <<Descriptor(1, 2, "R", 50)>>, <<Descriptor(1, 0, "R", 50)>>,
      <<Descriptor(2, 0, "R", 50)>> }

Start(circ, terms) ==
    /\ Txt_Data = [formatted_Circ_Values |-> circ, formatted_Term_Values |-> terms]
    /\ pc = "sweep"
    /\ freq = Unbound
    /\ frequencies = <<>>
    /\ idx = 0
    /\ components = <<>>
    /\ circuit = Unbound
    /\ output_file = [exists |-> FALSE, rows |-> 0]
    /\ exc = "none"
    /\ output_data = <<>>
    /\ formatted_Outputs = Unbound
    /\ Outputs = Unbound
    /\ calls = 0

\* The reactive kinds are swept at the frequencies 7/88 and 7/44 only: at the
\* decade frequencies of a logarithmic sweep their exact values outgrow the
\* integers of the model checker.
Representable(circ, terms) ==
    "LFstart" \in DOMAIN terms =>
        \A k \in 1..Len(circ) : circ[k].type \notin {"L", "C"}

\* circuits of up to MaxComps components under every kind of terms
InitLists ==
    \E circ \in SeqsUpTo(ListDescriptors, MaxComps), terms \in TermsSet :
        /\ Representable(circ, terms)
        /\ Start(circ, terms)

\* one component of every pin pair, kind and value
InitSingle ==
    \E n1 \in Pins, n2 \in Pins, t \in Kinds, v \in 0..MaxValue :
        Start(<<Descriptor(n1, n2, t, v)>>, GoodTerms)

InitExamples ==
    \E circ \in ExampleCircuits : Start(circ, ExampleTerms)

Init == InitLists \/ InitSingle \/ InitExamples

Spec == Init /\ [][Next]_vars

(***************************************************************************)
(* Properties                                                              *)
(***************************************************************************)
Input == Txt_Data.formatted_Circ_Values
Terms == Txt_Data.formatted_Term_Values

Finished == pc \in {"done", "crashed"}

LoopFinished == pc \in {"loop", "export", "done", "crashed"} /\ idx > Len(Input)

\* the run fails in one of the three ways the fallback is written for
SweepFailed == Sweep(Terms).exc # "none"
NoSurvivor == LoopFinished /\ Len(components) = 0
CircuitRaised ==
    /\ LoopFinished
    /\ Len(components) # 0
    /\ NewCircuit(components, frequencies, Terms).exc # "none"

RunFailed == SweepFailed \/ NoSurvivor \/ CircuitRaised

\* C1: whenever the run fails (no sweep, no surviving component, or the
\* construction of the circuit raises), the run ends with an output file of no
\* data rows and without an unhandled exception.
C1_FailedRunEndsClean ==
    (Finished /\ RunFailed) =>
        /\ output_file = [exists |-> TRUE, rows |-> 0]
        /\ pc = "done"
        /\ exc = "none"

\* the part of C1 the code does provide: the file of a failed run has no data rows
C1_FailedRunFileEmpty ==
    (Finished /\ RunFailed) => output_file = [exists |-> TRUE, rows |-> 0]

\* C2: a connectivity error or a kind-dispatch error raised while a component
\* is constructed never leaves the component loop, whatever the pins and the
\* kind of the descriptor: the run never ends on such an exception.
C2_ComponentErrorsStayInLoop ==
    ~(pc = "crashed" /\
      exc \in {"ComponentConnectionException", "ComponentTypeException"})

DescriptorOf(c) == Descriptor(c.Pin1, c.Pin2, c.Type, c.Value)

DescriptorsOf(comps) == [k \in 1..Len(comps) |-> DescriptorOf(comps[k])]

Connected(d) == d.n1 # d.n2

\* the descriptors the loop has been through
Processed == SubSeq(Input, 1, idx - 1)

\* C3: every descriptor with pin1 = pin2 raises ComponentConnectionException,
\* and the component list is the list of the other descriptors gone through,
\* in their input order; the circuit is built from that list, so its cascade
\* order is the order of the input with the misconnected components deleted.
C3_MisconnectedDropped ==
    /\ \A k \in 1..Len(Input) :
          ~Connected(Input[k]) =>
              /\ Impedance_init("Impedance", Input[k].n1, Input[k].n2,
                                Input[k].value, Input[k].type).exc
                    = "ComponentConnectionException"
              /\ BuildOne(Input[k], frequencies).outcome = "skipped"
    /\ DescriptorsOf(components) = SelectSeq(Processed, Connected)
    /\ circuit.bound =>
          /\ DescriptorsOf(circuit.val.components_list) = SelectSeq(Input, Connected)
          /\ DescriptorsOf(circuit.val.components_list_Ordored)
                = DescriptorsOf(Order_components(circuit.val.components_list))

\* a circuit was built from three descriptors, the second one misconnected
C3_Witness ==
    /\ circuit.bound
    /\ Len(Input) = 3
    /\ ~Connected(Input[2])
    /\ Connected(Input[1]) /\ Connected(Input[3])
    /\ Input[1] # Input[3]
    /\ Len(circuit.val.components_list) = 2

\* the input node as the claim states it
ExpectedInNode(pin1, pin2) ==
    IF pin1 = 0 THEN pin2
    ELSE IF pin2 = 0 THEN pin1
    ELSE IF pin1 < pin2 THEN pin1 ELSE pin2

\* C4: for distinct pins, the input node of a component of kind R or G (class
\* Impedance) and of kind L or C (class FreqDepImpedence) is the other pin when
\* a pin is 0 and the smaller pin otherwise.
C4_InputNode ==
    /\ \A k \in 1..Len(components) :
          /\ components[k].Pin1 # components[k].Pin2
          /\ components[k].In_node
                = ExpectedInNode(components[k].Pin1, components[k].Pin2)
          /\ components[k].Type \in {"R", "G"} <=> components[k].cls = "Impedance"
          /\ components[k].Type \in {"L", "C"}
                <=> components[k].cls = "FreqDepImpedence"
    /\ \A k \in 1..(idx - 1) :
          (Connected(Input[k]) /\ Input[k].type \in {"R", "G", "L", "C"}) =>
              \E n \in 1..Len(components) : DescriptorOf(components[n]) = Input[k]

\* the four documented pin pairs, the last two on a frequency-dependent component
C4_Witness ==
    /\ Len(components) = 1
    /\ \/ components[1].Pin1 = 1 /\ components[1].Pin2 = 0 /\ components[1].In_node = 1
       \/ components[1].Pin1 = 0 /\ components[1].Pin2 = 5 /\ components[1].In_node = 5
    /\ components[1].Type = "R"

C4_WitnessReactive ==
    /\ Len(components) = 1
    /\ components[1].Pin1 = 7 /\ components[1].Pin2 = 3 /\ components[1].In_node = 3
    /\ components[1].Type = "C"

IsShunt(x) == x.Pin1 = 0 \/ x.Pin2 = 0

\* the elements of a list with a given input node and placement, in list order
RECURSIVE WithKey(_, _, _)
WithKey(s, node, shunt) ==
    IF s = <<>> THEN <<>>
    ELSE IF Head(s).In_node = node /\ IsShunt(Head(s)) = shunt
    THEN <<Head(s)>> \o WithKey(Tail(s), node, shunt)
    ELSE WithKey(Tail(s), node, shunt)

\* ascending input nodes, and every list of equal-key elements kept as it was
OrderedByNodeStable(given, ordered) ==
    /\ Len(ordered) = Len(given)
    /\ \A a, b \in 1..Len(ordered) :
          a < b => ordered[a].In_node <= ordered[b].In_node
    /\ \A k \in 1..Len(given) : \A shunt \in BOOLEAN :
          WithKey(ordered, given[k].In_node, shunt)
             = WithKey(given, given[k].In_node, shunt)

\* C5 as stated: Order_components sorts by In_node ascending and stably, and
\* among equal In_node every series component (no pin 0) comes before every
\* shunt component (a pin 0).
C5_SeriesBeforeShunt ==
    circuit.bound =>
        LET given == circuit.val.components_list
            ordered == circuit.val.components_list_Ordored
        IN  /\ OrderedByNodeStable(given, ordered)
            /\ \A a, b \in 1..Len(ordered) :
                  (ordered[a].In_node = ordered[b].In_node
                     /\ ~IsShunt(ordered[a]) /\ IsShunt(ordered[b])) => a < b

\* C5 as amended: Order_components returns a permutation sorted by In_node
\* ascending and stable on equal keys; among equal In_node every shunt
\* component (a pin 0) comes before every series component (no pin 0).
C5_ShuntBeforeSeries ==
    circuit.bound =>
        LET given == circuit.val.components_list
            ordered == circuit.val.components_list_Ordored
        IN  /\ OrderedByNodeStable(given, ordered)
            /\ \A a, b \in 1..Len(ordered) :
                  (ordered[a].In_node = ordered[b].In_node
                     /\ IsShunt(ordered[a]) /\ ~IsShunt(ordered[b])) => a < b

\* a series component given ahead of a shunt one at the same input node, and
\* two components of equal key
C5_Witness ==
    /\ circuit.bound
    /\ Len(circuit.val.components_list) = 3
    /\ LET given == circuit.val.components_list
       IN  /\ ~IsShunt(given[1]) /\ IsShunt(given[2])
           /\ given[1].In_node = given[2].In_node
           /\ SortKey(given[3]) = SortKey(given[1])
           /\ given[3] # given[1]
    /\ circuit.val.components_list_Ordored # circuit.val.components_list

\* ABCD_1 (ABCD_2 ( ... (ABCD_n))): the product of the matrices in list order
RECURSIVE Product(_, _)
Product(comps, F) ==
    IF comps = <<>> THEN Identity
    ELSE MatMul(component_MAT_GEN(Head(comps), F).val, Product(Tail(comps), F))

FiniteMat(m) == IsFinite(m.A) /\ IsFinite(m.B) /\ IsFinite(m.C) /\ IsFinite(m.D)

\* every component has a matrix of finite entries at F
FiniteAt(comps, F) ==
    \A k \in 1..Len(comps) : FiniteMat(component_MAT_GEN(comps[k], F).val)

\* C6: at every frequency of the sweep the network matrix is the product
\* I ABCD_1 ABCD_2 ... ABCD_n of the matrices of the ordered components, the
\* earliest one leftmost (a product of finite matrices: with an inf or a nan
\* among the entries the grouping of the product shows).
C6_CascadeIsOrderedProduct ==
    circuit.bound =>
        /\ DOMAIN circuit.val.cascade_ABDC_mat = Keys(frequencies)
        /\ \A F \in Keys(frequencies) :
              FiniteAt(circuit.val.components_list_Ordored, F) =>
                 circuit.val.cascade_ABDC_mat[F]
                    = MatMul(Identity, Product(circuit.val.components_list_Ordored, F))

\* three ordered components, the first two of which do not commute
C6_Witness ==
    /\ circuit.bound
    /\ Len(circuit.val.components_list_Ordored) = 3
    /\ \E F \in Keys(frequencies) :
          LET m1 == component_MAT_GEN(circuit.val.components_list_Ordored[1], F).val
              m2 == component_MAT_GEN(circuit.val.components_list_Ordored[2], F).val
          IN  /\ FiniteAt(circuit.val.components_list_Ordored, F)
              /\ MatMul(m1, m2) # MatMul(m2, m1)
              /\ circuit.val.components_list_Ordored[2].cls = "FreqDepImpedence"

\* frequency arguments: those of the sweep and some others
SomeFrequencies == Keys(frequencies) \cup {Num(0), Num(10), Num(1000)}

\* C7: at every frequency argument an R component of value v gives
\* [[1, v], [0, 1]] in series and [[1, 0], [1/v, 1]] in shunt, a G component
\* [[1, 1/v], [0, 1]] in series and [[1, 0], [v, 1]] in shunt (1/v being the
\* number whose product with v is 1), so the matrix does not depend on the
\* frequency; R = 50 gives [[1, 50], [0, 1]] and [[1, 0], [0.02, 1]].
C7_ResistiveMatrix ==
    \A k \in 1..Len(components) : \A F \in SomeFrequencies :
        LET Holds(c, m, v, direct) ==           \* direct: the entry is v itself
            (c.cls = "Impedance" /\ (direct \/ c.Value # 0)) =>
               /\ c.Type \in {"R", "G"}
               /\ m.exc = "none"
               /\ m.val.A = Num(1) /\ m.val.D = Num(1)
               /\ IsShunt(c) => m.val.B = Num(0)
               /\ ~IsShunt(c) => m.val.C = Num(0)
               /\ (c.Type = "R" /\ ~IsShunt(c)) => m.val.B = v
               /\ (c.Type = "R" /\ IsShunt(c)) => Mul(m.val.C, v) = Num(1)
               /\ (c.Type = "G" /\ ~IsShunt(c)) => Mul(m.val.B, v) = Num(1)
               /\ (c.Type = "G" /\ IsShunt(c)) => m.val.C = v
               /\ (c.Type = "R" /\ c.Value = 50 /\ ~IsShunt(c)) =>
                     m.val = Mat(Num(1), Num(50), Num(0), Num(1))
               /\ (c.Type = "R" /\ c.Value = 50 /\ IsShunt(c)) =>
                     m.val = Mat(Num(1), Num(0), Cx(2, 0, 100), Num(1))
               /\ \A F2 \in SomeFrequencies : Impedance_MAT_GEN(c, F2) = m
        IN  Holds(components[k], Impedance_MAT_GEN(components[k], F),
                  Num(components[k].Value),
                  (components[k].Type = "R") = ~IsShunt(components[k]))

\* the shunt resistor of 50 of the documented example
C7_Witness ==
    /\ Len(components) = 1
    /\ components[1].Type = "R" /\ components[1].Value = 50
    /\ components[1].Pin1 = 1 /\ components[1].Pin2 = 0
    /\ Impedance_MAT_GEN(components[1], Num(1000)).val.C = Cx(1, 0, 50)

\* the documented example: a series resistor of 50 between the nodes 1 and 2,
\* Vth = 5, Rs = 50, RL = 50, the single frequency 1000
IsExample ==
    /\ Input = <<Descriptor(1, 2, "R", 50)>>
    /\ Terms = ExampleTerms

ExampleBuilt ==
    /\ IsExample
    /\ circuit.bound
    /\ circuit.val.Freq = <<Num(1000)>>
    /\ circuit.val.Vth = 5 /\ circuit.val.Rs = 50 /\ circuit.val.LoadRes = 50

\* C8: in the documented example Zin[1000] = 100, Zout[1000] = 100 and
\* Av[1000] = 0.5.
C8_ExampleImpedancesAndGain ==
    (IsExample /\ circuit.bound) =>
        /\ circuit.val.Zin[Num(1000)] = Num(100)
        /\ circuit.val.Zout[Num(1000)] = Num(100)
        /\ circuit.val.Av[Num(1000)] = Cx(1, 0, 2)

C8_Witness == ExampleBuilt /\ pc = "export"

\* C9 as stated: in the documented example the input port voltage Vin[1000]
\* is 2.5.
C9_ExampleVinIsTwoAndAHalf ==
    (IsExample /\ circuit.bound) => circuit.val.Vin[Num(1000)] = Cx(5, 0, 2)

\* C9 as amended: in the documented example the input port voltage Vin[1000]
\* is Vth Zin / (Zin + Rs) = 5 * 100 / 150 = 10/3.
C9_ExampleVinIsTenThirds ==
    (IsExample /\ circuit.bound) => circuit.val.Vin[Num(1000)] = Cx(10, 0, 3)

C9_Witness == ExampleBuilt /\ circuit.val.Zin[Num(1000)] = Num(100) /\ pc = "done"

\* the powers and the power gain at F are finite and the powers are not zero
PowersDefined(F) ==
    /\ IsFinite(circuit.val.Pin[F]) /\ ~IsZero(circuit.val.Pin[F])
    /\ IsFinite(circuit.val.Pout[F]) /\ ~IsZero(circuit.val.Pout[F])
    /\ IsFinite(circuit.val.Ap[F])

\* C10 as stated: with a load and a source resistance that are not zero, at
\* every frequency of the sweep the ratio Pin / Pout is the power gain Ap.
C10_InputOverOutputIsGain ==
    (circuit.bound /\ circuit.val.LoadRes # 0 /\ circuit.val.Rs # 0) =>
        \A F \in Keys(frequencies) :
            PowersDefined(F) =>
                Div(circuit.val.Pin[F], circuit.val.Pout[F]) = circuit.val.Ap[F]

\* C10 as amended: with a load and a source resistance that are not zero, at
\* every frequency of the sweep the ratio Pout / Pin is the power gain Ap
\* (Pout / Pin = Ap), and Pin / Pout is its reciprocal.
C10_OutputOverInputIsGain ==
    (circuit.bound /\ circuit.val.LoadRes # 0 /\ circuit.val.Rs # 0) =>
        /\ DOMAIN circuit.val.Ap = Keys(frequencies)
        /\ \A F \in Keys(frequencies) :
              PowersDefined(F) =>
                 /\ Div(circuit.val.Pout[F], circuit.val.Pin[F]) = circuit.val.Ap[F]
                 /\ Mul(Div(circuit.val.Pin[F], circuit.val.Pout[F]),
                        circuit.val.Ap[F]) = Num(1)

\* a circuit with a reactive component whose power gain is not its own reciprocal
C10_Witness ==
    /\ circuit.bound /\ circuit.val.LoadRes # 0 /\ circuit.val.Rs # 0
    /\ \E k \in 1..Len(components) : components[k].cls = "FreqDepImpedence"
    /\ \E F \in Keys(frequencies) :
          /\ PowersDefined(F)
          /\ Mul(circuit.val.Ap[F], circuit.val.Ap[F]) # Num(1)
          /\ circuit.val.Ap[F].i # 0

(***************************************************************************)
(* Strings.  A Python string is modelled as the sequence of its            *)
(* characters, so that the substring tests, the splitting and the regular  *)
(* expression of the source are computed as the source computes them.      *)
(***************************************************************************)
\* the characters the class \w of the regular expressions matches
WordChars ==
    { "a", "b", "c", "d", "e", "f", "g", "h", "i", "j", "k", "l", "m", "n",
      "o", "p", "q", "r", "s", "t", "u", "v", "w", "x", "y", "z",
      "A", "B", "C", "D", "E", "F", "G", "H", "I", "J", "K", "L", "M", "N",
      "O", "P", "Q", "R", "S", "T", "U", "V", "W", "X", "Y", "Z",
      "0", "1", "2", "3", "4", "5", "6", "7", "8", "9", "_" }

\* the characters the class \s matches in the str() of a list of lines: str()
\* writes every other white-space character of a line as an escape sequence
SpaceChars == {" "}

\* s.startswith(t)
StartsWith(s, t) == Len(t) <= Len(s) /\ SubSeq(s, 1, Len(t)) = t

\* t in s
Contains(s, t) ==
    \E p \in 1..(Len(s) - Len(t) + 1) : SubSeq(s, p, p + Len(t) - 1) = t

\* s.replace(t, ""): every occurrence of t, left to right
RECURSIVE Removed(_, _)
Removed(s, t) ==
    IF s = <<>> THEN <<>>
    ELSE IF StartsWith(s, t) THEN Removed(SubSeq(s, Len(t) + 1, Len(s)), t)
    ELSE <<Head(s)>> \o Removed(Tail(s), t)

\* s.split(" ")[0]
RECURSIVE FirstPart(_)
FirstPart(s) ==
    IF s = <<>> \/ Head(s) = " " THEN <<>> ELSE <<Head(s)>> \o FirstPart(Tail(s))

\* the length of the longest prefix of s made of characters of the class
RECURSIVE Run(_, _)
Run(s, class) ==
    IF s = <<>> \/ Head(s) \notin class THEN 0 ELSE 1 + Run(Tail(s), class)

Drop(s, n) == SubSeq(s, n + 1, Len(s))

Take(s, n) == SubSeq(s, 1, n)

(***************************************************************************)
(* DataExtract.py: the output section                                      *)
(***************************************************************************)
\* repr of a string without quotes or backslashes
Repr(line) == <<"'">> \o line \o <<"'">>

RECURSIVE JoinRepr(_)
JoinRepr(lines) ==
    IF lines = <<>> THEN <<>>
    ELSE IF Len(lines) = 1 THEN Repr(lines[1])
    ELSE Repr(Head(lines)) \o <<",", " ">> \o JoinRepr(Tail(lines))

\* str(output_data) of a list of strings
StrOfList(lines) == <<"[">> \o JoinRepr(lines) \o <<"]">>

\* re.findall(r'(\w+)\s*(\w+)?', text): the (name, unit) groups of the
\* successive matches; an unmatched second group is the empty string
RECURSIVE FindAll(_)
FindAll(text) ==
    IF text = <<>> THEN <<>>
    ELSE IF Head(text) \notin WordChars THEN FindAll(Tail(text))
    ELSE LET n == Run(text, WordChars)
             afterSpace == Drop(Drop(text, n), Run(Drop(text, n), SpaceChars))
             u == Run(afterSpace, WordChars)
         IN  <<[name |-> Take(text, n), unit |-> Take(afterSpace, u)]>>
                \o FindAll(Drop(afterSpace, u))

\* a dict in insertion order, as the sequence of its items
DictKeys(d) == {d[k].param : k \in 1..Len(d)}

\* d[param] = unit
DictSet(d, param, unit) ==
    IF param \in DictKeys(d)
    THEN [k \in 1..Len(d) |->
            IF d[k].param = param THEN [param |-> param, unit |-> unit] ELSE d[k]]
    ELSE Append(d, [param |-> param, unit |-> unit])

\* a decoder that keys each entry by the quantity name alone
RECURSIVE StoreMatches_ByName(_, _)
StoreMatches_ByName(variables, matches) ==
    IF matches = <<>> THEN variables
    ELSE StoreMatches_ByName(
             DictSet(variables, Head(matches).name, Head(matches).unit),
             Tail(matches))

\* lines 289-291: variables[name+" "+unit] = str(unit) for each match
RECURSIVE StoreMatches(_, _)
StoreMatches(variables, matches) ==
    IF matches = <<>> THEN variables
    ELSE StoreMatches(
             DictSet(variables, Head(matches).name \o <<" ">> \o Head(matches).unit,
                     Head(matches).unit),
             Tail(matches))

\* DataExtract.process_output_data
process_output_data(lines) == StoreMatches(<<>>, FindAll(StrOfList(lines)))

(***************************************************************************)
(* Circ.py: get_Ordered_Outputs                                            *)
(***************************************************************************)
\* getattr(self, param_raw, None): the kind of the attribute of that name,
\* "None" when the object has no such attribute
AttributeKind(param_raw) ==
    CASE param_raw = <<"c", "a", "s", "c", "a", "d", "e", "_", "A", "B", "D", "C", "_", "m", "a", "t">>
             -> "matrices"
      [] param_raw = <<"Z", "i", "n">>
             -> "map"
      [] param_raw = <<"Z", "o", "u", "t">>
             -> "map"
      [] param_raw = <<"V", "i", "n">>
             -> "map"
      [] param_raw = <<"I", "i", "n">>
             -> "map"
      [] param_raw = <<"V", "o", "u", "t">>
             -> "map"
      [] param_raw = <<"I", "o", "u", "t">>
             -> "map"
      [] param_raw = <<"P", "i", "n">>
             -> "map"
      [] param_raw = <<"P", "o", "u", "t">>
             -> "map"
      [] param_raw = <<"A", "v">>
             -> "map"
      [] param_raw = <<"A", "i">>
             -> "map"
      [] param_raw = <<"A", "p">>
             -> "map"
      [] param_raw = <<"V", "t", "h">>
             -> "scalar"
      [] param_raw = <<"R", "s">>
             -> "scalar"
      [] param_raw = <<"L", "o", "a", "d", "R", "e", "s">>
             -> "scalar"
      [] param_raw = <<"F", "r", "e", "q">>
             -> "array"
      [] param_raw = <<"c", "o", "m", "p", "o", "n", "e", "n", "t", "s", "_", "l", "i", "s", "t">>
             -> "list"
      [] param_raw = <<"c", "o", "m", "p", "o", "n", "e", "n", "t", "s", "_", "l", "i", "s", "t", "_", "O", "r", "d", "o", "r", "e", "d">>
             -> "list"
      [] param_raw = <<"c", "o", "n", "v", "e", "r", "s", "i", "o", "n", "D", "i", "c", "t">>
             -> "dict"
      [] param_raw = <<"O", "r", "d", "e", "r", "_", "c", "o", "m", "p", "o", "n", "e", "n", "t", "s">>
             -> "method"
      [] param_raw = <<"M", "A", "T", "_", "G", "E", "N">>
             -> "method"
      [] param_raw = <<"V", "i", "n", "_", "C", "A", "L", "C">>
             -> "method"
      [] param_raw = <<"I", "i", "n", "_", "C", "A", "L", "C">>
             -> "method"
      [] param_raw = <<"P", "i", "n", "_", "C", "A", "L", "C">>
             -> "method"
      [] param_raw = <<"P", "o", "u", "t", "_", "C", "A", "L", "C">>
             -> "method"
      [] param_raw = <<"A", "v", "_", "C", "A", "L", "C">>
             -> "method"
      [] param_raw = <<"A", "i", "_", "C", "A", "L", "C">>
             -> "method"
      [] param_raw = <<"A", "p", "_", "C", "A", "L", "C">>
             -> "method"
      [] param_raw = <<"Z", "_", "G", "E", "N">>
             -> "method"
      [] param_raw = <<"c", "a", "l", "c", "u", "l", "a", "t", "e", "_", "V", "o", "u", "t", "I", "o", "u", "t">>
             -> "method"
      [] param_raw = <<"g", "e", "t", "_", "O", "r", "d", "e", "r", "e", "d", "_", "O", "u", "t", "p", "u", "t", "s">>
             -> "method"
      [] OTHER -> "None"

\* the field of the model that holds the attribute
Field(param_raw) ==
    CASE param_raw = <<"c", "a", "s", "c", "a", "d", "e", "_", "A", "B", "D", "C", "_", "m", "a", "t">> -> "cascade_ABDC_mat"
      [] param_raw = <<"Z", "i", "n">> -> "Zin"
      [] param_raw = <<"Z", "o", "u", "t">> -> "Zout"
      [] param_raw = <<"V", "i", "n">> -> "Vin"
      [] param_raw = <<"I", "i", "n">> -> "Iin"
      [] param_raw = <<"V", "o", "u", "t">> -> "Vout"
      [] param_raw = <<"I", "o", "u", "t">> -> "Iout"
      [] param_raw = <<"P", "i", "n">> -> "Pin"
      [] param_raw = <<"P", "o", "u", "t">> -> "Pout"
      [] param_raw = <<"A", "v">> -> "Av"
      [] param_raw = <<"A", "i">> -> "Ai"
      [] param_raw = <<"A", "p">> -> "Ap"

\* value[F] for the attribute value: a dict of the sweep gives its entry, a
\* number or a method is not subscriptable, a list or an array takes no float
\* index, and conversionDict has no such key
Subscript(self, param_raw, F) ==
    CASE AttributeKind(param_raw) \in {"map", "matrices"}
             -> Returned(self[Field(param_raw)][F])
      [] AttributeKind(param_raw) \in {"scalar", "list", "method"}
             -> Raised("TypeError")
      [] AttributeKind(param_raw) = "array" -> Raised("IndexError")
      [] AttributeKind(param_raw) = "dict" -> Raised("KeyError")

\* Circ.conversionDict, each value 'e<n>' by the exponent n that
\* float('1' + 'e<n>') gives to the divisor 10 ** n
conversionDict ==
    [p |-> -12, n |-> -9, u |-> -6, m |-> -3, k |-> 3, M |-> 6, G |-> 9]

dB == <<"d", "B">>

PowerKeywords == {<<"P", "o", "u", "t">>, <<"P", "i", "n">>, <<"Z", "i", "n">>, <<"Z", "o", "u", "t">>, <<"A", "p">>}

\* lines 233-236: the keywords are looked for in the whole request string
dB_multiplier(param) ==
    IF \E keyword \in PowerKeywords : Contains(param, keyword) THEN 10 ELSE 20

\* lines 239-242: the keys of conversionDict that dB_removed starts with
PrefixesOf(dB_removed) ==
    {key \in DOMAIN conversionDict : StartsWith(dB_removed, <<key>>)}

\* value[F] / float('1' + self.conversionDict[key]), kept as the value and the
\* exponent of the divisor
Converted(value, key) == [value |-> value, divisor_e |-> conversionDict[key]]

\* lines 239-242 and 246-247: the value whose magnitude is taken
Converted_value(value, unit) ==
    IF PrefixesOf(Removed(unit, dB)) # {}
    THEN Converted(value, CHOOSE key \in PrefixesOf(Removed(unit, dB)) : TRUE)
    ELSE value

IsMatrix(v) == DOMAIN v = {"A", "B", "C", "D"}

\* the number a converted or raw value stands for is zero / not finite
RawOf(v) == IF "divisor_e" \in DOMAIN v THEN v.value ELSE v

\* a magnitude that takes the logarithm of zero as well
Magnitude_Unguarded(dB_mult, v) ==
    IF IsMatrix(RawOf(v)) THEN Raised("ValueError")
    ELSE IF ~IsFinite(RawOf(v)) THEN Returned([kind |-> "nonfinite"])
    ELSE IF IsZero(RawOf(v)) THEN Raised("ValueError")
    ELSE Returned([kind |-> "finite", dB_multiplier |-> dB_mult, log10_abs |-> v])

\* lines 243 and 247: dB_multiplier * log10(abs(v)) if abs(v) > 0 else -inf,
\* as the kind of the result and, for a finite one, the multiplier and the
\* value whose magnitude is taken.  The abs of an array cannot be tested; an
\* inf gives inf and a nan gives -inf, both standing behind "nonfinite".
Magnitude(dB_mult, v) ==
    IF IsMatrix(RawOf(v)) THEN Raised("ValueError")
    ELSE IF ~IsFinite(RawOf(v)) THEN Returned([kind |-> "nonfinite"])
    ELSE IF IsZero(RawOf(v)) THEN Returned([kind |-> "-inf"])
    ELSE Returned([kind |-> "finite", dB_multiplier |-> dB_mult, log10_abs |-> v])

\* lines 222-251: the entry of one request at one frequency; skip is TRUE
\* when the request adds nothing to Inter
Request(self, param, unit, F) ==
    IF AttributeKind(FirstPart(param)) = "None"
    THEN [exc |-> "none", skip |-> TRUE, val |-> "none"]
    ELSE IF Subscript(self, FirstPart(param), F).exc # "none"
    THEN [exc |-> Subscript(self, FirstPart(param), F).exc, skip |-> FALSE,
          val |-> "none"]
    ELSE IF ~Contains(unit, dB)
    THEN [exc |-> "none", skip |-> FALSE,
          val |-> Subscript(self, FirstPart(param), F).val]
    ELSE LET v == Converted_value(Subscript(self, FirstPart(param), F).val, unit)
             mag_dB == Magnitude(dB_multiplier(param), v)
         IN  IF mag_dB.exc # "none"
             THEN [exc |-> mag_dB.exc, skip |-> FALSE, val |-> "none"]
             ELSE [exc |-> "none", skip |-> FALSE,
                   val |-> [Mag |-> mag_dB.val, Phase |-> [phase |-> v]]]

\* an Inter dict keyed by the quantity name alone
RECURSIVE Inter_ByName(_, _, _, _)
Inter_ByName(self, order, F, acc) ==
    IF order = <<>> THEN Returned(acc)
    ELSE LET r == Request(self, Head(order).param, Head(order).unit, F)
         IN  IF r.exc # "none" THEN Raised(r.exc)
             ELSE IF r.skip THEN Inter_ByName(self, Tail(order), F, acc)
             ELSE Inter_ByName(self, Tail(order), F,
                               (FirstPart(Head(order).param) :> r.val) @@ acc)

\* lines 219-251: the dict Inter of one frequency, the requests taken in the
\* order of the directive
RECURSIVE Inter(_, _, _, _)
Inter(self, order, F, acc) ==
    IF order = <<>> THEN Returned(acc)
    ELSE LET r == Request(self, Head(order).param, Head(order).unit, F)
         IN  IF r.exc # "none" THEN Raised(r.exc)
             ELSE IF r.skip THEN Inter(self, Tail(order), F, acc)
             ELSE Inter(self, Tail(order), F, (Head(order).param :> r.val) @@ acc)

\* lines 215-254: the value returned, or the exception of the first request
\* that raises at the first frequency
Ordered_Outputs(self, order) ==
    IF \E k \in 1..Len(self.Freq) : Inter(self, order, self.Freq[k], <<>>).exc # "none"
    THEN Raised(Inter(self, order, self.Freq[1], <<>>).exc)
    ELSE Returned([F \in Keys(self.Freq) |-> Inter(self, order, F, <<>>).val])

\* a method that keeps the converted input voltages in the object
get_Ordered_Outputs_Keeping(self, order) ==
    [result |-> Ordered_Outputs(self, order),
     self |-> [self EXCEPT !.Vin = [F \in DOMAIN self.Vin |-> Neg(self.Vin[F])]]]

\* Circ.get_Ordered_Outputs: its result and the object after the call; the
\* method assigns to locals only
get_Ordered_Outputs(self, order) ==
    [result |-> Ordered_Outputs(self, order), self |-> self]

(***************************************************************************)
(* The circuit object and its output directive: the output section is      *)
(* decoded by DataExtract and the result handed, with the constructed      *)
(* circuit, to get_Ordered_Outputs by the exporter.                        *)
(***************************************************************************)
MaxLines == 2
MaxCalls == 2

\* lines of the output section: plain, decibel and prefixed requests, unknown
\* names, attributes that are no derived maps, and units of unusual form
OutputLines ==
    << <<"V", "i", "n", " ", "V">>,
      <<"V", "i", "n", " ", "d", "B", "V">>,
      <<"V", "i", "n", " ", "d", "B", "m", "V">>,
      <<"P", "o", "u", "t", " ", "d", "B", "W">>,
      <<"Z", "i", "n">>,
      <<"V", "t", "h", " ", "V">>,
      <<"F", "o", "o", " ", "d", "B">>,
      <<"V", "i", "n", " ", "d", "B", "A", "p">>,
      <<"I", "i", "n", " ", "m", "d", "B">>,
      <<"I", "o", "u", "t", " ", "V", "d", "B", "m">>,
      <<"H", "e", "l", "l", "o", " ", "h", "i">>,
      <<"F", "a", "r", "e", "w", "e", "l", "l", " ", "b", "y", "e">>,
      <<"V", "o", "u", "t", " ", " ", "d", "B", "u", "V", " ", "d", "B">>,
      <<"A", "v", " ", "d", "B", "k">> >>

\* the lines of the given positions, in the order of OutputLines
RECURSIVE LinesAt(_)
LinesAt(I) ==
    IF I = {} THEN <<>>
    ELSE LET first == CHOOSE j \in I : \A l \in I : j <= l
         IN  <<OutputLines[first]>> \o LinesAt(I \ {first})

\* output sections of up to MaxLines lines
OutputSections ==
    {LinesAt(I) : I \in {K \in SUBSET (1..Len(OutputLines)) : Cardinality(K) <= MaxLines}}

\* a source of 0 volt makes every voltage, current and power of the circuit zero
DeadSourceTerms == [GoodTerms EXCEPT !.VT = 0]

\* a sweep of no frequency
NoFrequencyTerms == [GoodTerms EXCEPT !.Nfreqs = 0]

\* the runs whose circuit is queried: the circuit section and the terms
OutputRuns ==
    { [circ |-> <<Descriptor(1, 2, "R", 2)>>, terms |-> GoodTerms],
      [circ |-> <<Descriptor(1, 0, "R", 2), Descriptor(1, 2, "L", 2)>>,
       terms |-> GoodTerms],
      [circ |-> <<Descriptor(1, 2, "R", 2)>>, terms |-> DeadSourceTerms],
      [circ |-> <<Descriptor(1, 2, "R", 2)>>, terms |-> NoFrequencyTerms] }

\* the components the loop of the driver builds from connected descriptors
BuiltComponents(circ, Freq) == [k \in 1..Len(circ) |-> BuildOne(circ[k], Freq).comp[1]]

\* the state of the driver once the circuit is constructed, with the lines of
\* the output section still to be decoded
OutputsInit ==
    \E run \in OutputRuns, lines \in OutputSections :
      LET circ == run.circ
          terms == run.terms
      IN
        /\ Txt_Data = [formatted_Circ_Values |-> circ, formatted_Term_Values |-> terms]
        /\ pc = "decode"
        /\ freq = Bound(Sweep(terms).val)
        /\ frequencies = Sweep(terms).val
        /\ idx = Len(circ) + 1
        /\ components = BuiltComponents(circ, Sweep(terms).val)
        /\ circuit = Bound(NewCircuit(BuiltComponents(circ, Sweep(terms).val),
                                      Sweep(terms).val, terms).val)
        /\ output_file = [exists |-> FALSE, rows |-> 0]
        /\ exc = "none"
        /\ output_data = lines
        /\ formatted_Outputs = Unbound
        /\ Outputs = Unbound
        /\ calls = 0

\* DataExtract.read_file, line 112
ProcessOutputData ==
    /\ pc = "decode"
    /\ formatted_Outputs' = Bound(process_output_data(output_data))
    /\ pc' = "encode"
    /\ UNCHANGED <<Txt_Data, freq, frequencies, idx, components, circuit,
                   output_file, exc, output_data, Outputs, calls>>

\* the directives handed to the circuit: the decoded output section, or one of
\* its lines alone
Directives ==
    {formatted_Outputs.val}
        \cup {process_output_data(<<output_data[k]>>) : k \in 1..Len(output_data)}

\* a call circuit.get_Ordered_Outputs(order)
GetOrderedOutputs ==
    /\ pc = "encode"
    /\ calls < MaxCalls
    /\ \E order \in Directives :
          /\ Outputs' = Bound([order |-> order,
                               result |-> get_Ordered_Outputs(circuit.val, order).result])
          /\ circuit' = Bound(get_Ordered_Outputs(circuit.val, order).self)
    /\ calls' = calls + 1
    /\ UNCHANGED <<Txt_Data, pc, freq, frequencies, idx, components,
                   output_file, exc, output_data, formatted_Outputs>>

OutputsNext ==
    \/ ProcessOutputData
    \/ GetOrderedOutputs

OutputsSpec == OutputsInit /\ [][OutputsNext]_vars

(***************************************************************************)
(* Properties of the output directive                                      *)
(***************************************************************************)
\* the directive and the result of the last get_Ordered_Outputs call
LastOrder == Outputs.val.order
LastResult == Outputs.val.result

\* the request names a per-frequency map of the circuit
IsDerived(param) == AttributeKind(FirstPart(param)) \in {"map", "matrices"}

\* the requests of the last directive that name a per-frequency map
DerivedParams == {LastOrder[k].param : k \in {j \in 1..Len(LastOrder) : IsDerived(LastOrder[j].param)}}

\* some request for a per-frequency map raises by itself
DerivedRaises ==
    \E k \in 1..Len(LastOrder), F \in Keys(circuit.val.Freq) :
        /\ IsDerived(LastOrder[k].param)
        /\ Request(circuit.val, LastOrder[k].param, LastOrder[k].unit, F).exc # "none"

\* C11: every request whose name is not a derived per-frequency quantity,
\* the name of another attribute or of a method included, is skipped: the
\* call raises no error, the request adds no key at any frequency, and the
\* other requests are all produced.
C11_OtherNamesSkipped ==
    (Outputs.bound /\ ~DerivedRaises) =>
        /\ LastResult.exc = "none"
        /\ \A F \in Keys(circuit.val.Freq) : DOMAIN LastResult.val[F] = DerivedParams

\* the part of C11 the code does provide: a request whose name is no
\* attribute of the circuit at all is skipped
C11_AbsentNamesSkipped ==
    (/\ Outputs.bound
     /\ ~DerivedRaises
     /\ \A k \in 1..Len(LastOrder) :
           IsDerived(LastOrder[k].param)
              \/ AttributeKind(FirstPart(LastOrder[k].param)) = "None") =>
        /\ LastResult.exc = "none"
        /\ \A F \in Keys(circuit.val.Freq) : DOMAIN LastResult.val[F] = DerivedParams

\* the requests of the last directive in decibels that were given a value
DecibelRequests ==
    {k \in 1..Len(LastOrder) :
        IsDerived(LastOrder[k].param) /\ Contains(LastOrder[k].unit, dB)}

EntryOf(F, k) == LastResult.val[F][LastOrder[k].param]

\* the multiplier the quantity name alone calls for
NameIsPower(item) == IF FirstPart(item.param) \in PowerKeywords THEN 10 ELSE 20

\* the multiplier of every decibel entry of finite magnitude follows the name
MultiplierFollowsName ==
    \A k \in DecibelRequests, F \in Keys(circuit.val.Freq) :
        EntryOf(F, k).Mag.kind = "finite" =>
            EntryOf(F, k).Mag.dB_multiplier = NameIsPower(LastOrder[k])

\* C12: for a request in decibels the multiplier is 10 exactly when the
\* quantity name is one of Pout, Pin, Zin, Zout, Ap and 20 for every other
\* name, whatever the text of the unit.
C12_MultiplierByName ==
    (Outputs.bound /\ LastResult.exc = "none") => MultiplierFollowsName

\* the part of C12 the code does provide: the multiplier follows the name
\* when the unit holds none of the five keywords
C12_MultiplierByNameOfPlainUnit ==
    (/\ Outputs.bound /\ LastResult.exc = "none"
     /\ \A k \in DecibelRequests, keyword \in PowerKeywords :
           ~Contains(LastOrder[k].unit, keyword)) => MultiplierFollowsName

\* the positions of the unit where a decibel marker is followed by an SI prefix
PrefixAfterMarker(unit) ==
    {p \in 1..(Len(unit) - 2) :
        SubSeq(unit, p, p + 1) = dB /\ unit[p + 2] \in DOMAIN conversionDict}

\* the value of the entry was divided by a power of ten
Scaled(entry) == "divisor_e" \in DOMAIN entry.Phase.phase

\* every decibel entry is scaled exactly when a prefix follows the marker in
\* its unit, and then by the factor of that prefix
ScaledByPrefixAfterMarker ==
    \A k \in DecibelRequests, F \in Keys(circuit.val.Freq) :
        /\ Scaled(EntryOf(F, k)) <=> PrefixAfterMarker(LastOrder[k].unit) # {}
        /\ Scaled(EntryOf(F, k)) =>
              \E p \in PrefixAfterMarker(LastOrder[k].unit) :
                  EntryOf(F, k).Phase.phase.divisor_e
                     = conversionDict[LastOrder[k].unit[p + 2]]

\* C13: the value of a decibel request is divided by a power of ten if and
\* only if a recognised SI prefix stands immediately after the decibel marker
\* of the unit, and the divisor is the factor of that prefix.
C13_ScaledIffPrefixAfterMarker ==
    (Outputs.bound /\ LastResult.exc = "none") => ScaledByPrefixAfterMarker

\* the part of C13 the code does provide: units that begin with their only
\* decibel marker
C13_ScaledWhenMarkerLeads ==
    (/\ Outputs.bound /\ LastResult.exc = "none"
     /\ \A k \in DecibelRequests :
           /\ StartsWith(LastOrder[k].unit, dB)
           /\ ~Contains(Tail(LastOrder[k].unit), dB)) => ScaledByPrefixAfterMarker

\* the last call returned a result
Answered == Outputs.bound /\ LastResult.exc = "none"

\* C14: the result of get_Ordered_Outputs has exactly the frequencies of the
\* sweep as outer keys and, under each frequency, one entry for each request
\* of a known quantity, keyed by the request string as it stands in the
\* directive; requests of one quantity under different units are different
\* entries, each holding the value of its own request.
C14_KeyedByFrequencyThenRequest ==
    Answered =>
        /\ DOMAIN LastResult.val = Keys(circuit.val.Freq)
        /\ \A F \in Keys(circuit.val.Freq) :
              /\ DOMAIN LastResult.val[F] = DerivedParams
              /\ \A k \in 1..Len(LastOrder) :
                    IsDerived(LastOrder[k].param) =>
                       EntryOf(F, k)
                          = Request(circuit.val, LastOrder[k].param,
                                    LastOrder[k].unit, F).val

\* a result that holds two different entries of one quantity under two units
C14_Witness ==
    /\ Answered
    /\ \E F \in Keys(circuit.val.Freq), k1, k2 \in 1..Len(LastOrder) :
          /\ FirstPart(LastOrder[k1].param) = FirstPart(LastOrder[k2].param)
          /\ LastOrder[k1].unit # LastOrder[k2].unit
          /\ {LastOrder[k1].param, LastOrder[k2].param} \subseteq DOMAIN LastResult.val[F]
          /\ EntryOf(F, k1) # EntryOf(F, k2)

\* the per-frequency maps of a circuit
DerivedMaps ==
    {"cascade_ABDC_mat", "Zin", "Zout", "Vin", "Iin", "Vout", "Iout", "Pin", "Pout",
     "Av", "Ai", "Ap"}

\* C15: once the circuit is constructed, and after any number of
\* get_Ordered_Outputs calls with any directive, the network-matrix map and
\* the eleven derived maps have the frequencies of the sweep as their key set
\* and the values construction gave them.
C15_CircuitReadOnly ==
    pc \in {"decode", "encode"} =>
        /\ circuit = Bound(NewCircuit(components, frequencies,
                                      Txt_Data.formatted_Term_Values).val)
        /\ \A m \in DerivedMaps : DOMAIN circuit.val[m] = Keys(frequencies)

\* two calls were made on a circuit of a sweep of two frequencies, one that
\* returned a result and one with another directive
C15_Witness ==
    /\ calls >= 2
    /\ Answered
    /\ Cardinality(Keys(frequencies)) = 2
    /\ LastOrder # formatted_Outputs.val
    /\ \E F \in Keys(frequencies) : DOMAIN LastResult.val[F] # {}

\* the value a decibel request takes the magnitude of
ValueOf(k, F) ==
    Converted_value(Subscript(circuit.val, FirstPart(LastOrder[k].param), F).val,
                    LastOrder[k].unit)

ZeroValued(k, F) ==
    /\ ~IsMatrix(RawOf(ValueOf(k, F)))
    /\ IsFinite(RawOf(ValueOf(k, F)))
    /\ IsZero(RawOf(ValueOf(k, F)))

\* C17: a decibel request whose value, scaled or not, is zero at a frequency
\* raises no error and has the magnitude negative infinity there, on the
\* prefixed and on the unprefixed path.
C17_ZeroMagnitudeIsNegInf ==
    Outputs.bound =>
        \A k \in DecibelRequests, F \in Keys(circuit.val.Freq) :
            ZeroValued(k, F) =>
                /\ Request(circuit.val, LastOrder[k].param, LastOrder[k].unit, F).exc
                      = "none"
                /\ Request(circuit.val, LastOrder[k].param, LastOrder[k].unit, F)
                      .val.Mag.kind = "-inf"
                /\ Answered => EntryOf(F, k).Mag.kind = "-inf"

\* a result with a prefixed and an unprefixed decibel entry of a zero value
C17_Witness ==
    /\ Answered
    /\ \E F \in Keys(circuit.val.Freq), k1, k2 \in DecibelRequests :
          /\ ZeroValued(k1, F) /\ Scaled(EntryOf(F, k1))
          /\ ZeroValued(k2, F) /\ ~Scaled(EntryOf(F, k2))
          /\ EntryOf(F, k1).Mag.kind = "-inf"
          /\ EntryOf(F, k2).Mag.kind = "-inf"

(***************************************************************************)
(* Further properties of the driver                                        *)
(***************************************************************************)
\* the loop is over and no component was made
AtEmptyList ==
    pc = "loop" /\ idx > Len(Input) /\ Len(components) = 0

\* the step the driver takes from there is the fallback: no circuit is
\* constructed and the empty file is written
FallbackStep ==
    AtEmptyList =>
        /\ circuit' = Unbound
        /\ output_file' = [exists |-> TRUE, rows |-> 0]
        /\ pc' \in {"done", "crashed"}

\* C16: the circuit is constructed, and so the matrix assembled and the
\* parameters derived, only from a list of at least one component; with no
\* component the driver takes the fallback and constructs nothing.
C16_NoDerivationOnEmptyList ==
    /\ [](circuit.bound => Len(components) # 0 /\ circuit.val.components_list = components)
    /\ [][FallbackStep]_vars

\* a run whose components were all dropped and that took the fallback
C16_Witness ==
    /\ Finished
    /\ freq.bound
    /\ Len(Input) > 0
    /\ idx > Len(Input)
    /\ Len(components) = 0
    /\ ~circuit.bound
    /\ output_file = [exists |-> TRUE, rows |-> 0]

\* a source of another voltage and another resistance than the given one: a
\* live one where the given voltage is 1, a dead one elsewhere
OtherSource(Vth, Rs) ==
    IF Vth = 1 THEN [Vth |-> 3, Rs |-> Rs + 1] ELSE [Vth |-> 0, Rs |-> Rs + 1]

\* the run's circuit constructed again with the other source
OtherCircuit ==
    Circ_init(components, frequencies, circuit.val.LoadRes,
              OtherSource(circuit.val.Vth, circuit.val.Rs).Vth,
              OtherSource(circuit.val.Vth, circuit.val.Rs).Rs)

\* the other circuit was constructed and has the voltage gain of the run's
SameGain(other) == other.exc = "none" /\ other.val.Av = circuit.val.Av

\* C18: two circuits of the same components, sweep and load resistance have
\* the same voltage gain at every frequency, whatever their source voltage
\* and source resistance.
C18_GainIndependentOfSource ==
    (pc = "export" /\ circuit.bound) => SameGain(OtherCircuit)

\* a circuit with a reactive component whose input voltage does change with
\* the source while its gain is finite
C18_Witness ==
    /\ pc = "export" /\ circuit.bound
    /\ \E k \in 1..Len(components) : components[k].cls = "FreqDepImpedence"
    /\ \E F \in Keys(frequencies) :
          /\ IsFinite(circuit.val.Av[F]) /\ circuit.val.Av[F].i # 0
          /\ OtherCircuit.val.Vin[F] # circuit.val.Vin[F]

\* C20: for a descriptor with pin1 = pin2 the misconnection error comes
\* before the kind dispatch, whatever the kind: the first construction
\* attempt raises ComponentConnectionException, the descriptor is dropped and
\* the frequency-dependent constructor is not called for it.
C20_MisconnectionBeforeKind ==
    \A k \in 1..Len(Input) :
        Input[k].n1 = Input[k].n2 =>
            /\ BuildOne(Input[k], frequencies).attempts = <<"Impedance">>
            /\ BuildOne(Input[k], frequencies).outcome = "skipped"
            /\ Impedance_init("Impedance", Input[k].n1, Input[k].n2,
                              Input[k].value, Input[k].type).exc
                  = "ComponentConnectionException"

\* a run that dropped a misconnected reactive component and a misconnected
\* one of unknown kind, and built its circuit from the third
C20_Witness ==
    /\ circuit.bound
    /\ Len(components) = 1
    /\ \E k1, k2 \in 1..Len(Input) :
          /\ Input[k1].n1 = Input[k1].n2 /\ Input[k1].type = "L"
          /\ Input[k2].n1 = Input[k2].n2 /\ Input[k2].type = "X"

(***************************************************************************)
(* Properties of the decoder of the output section                         *)
(***************************************************************************)
IsWordAt(line, a, b) == a <= b /\ \A j \in a..b : line[j] \in WordChars

\* the ways to read the line as a name, some spaces and a unit: the last
\* position of the name and the first of the unit
NameUnitSplits(line) ==
    {pq \in (1..Len(line)) \X (1..Len(line)) :
        /\ pq[1] + 1 < pq[2]
        /\ IsWordAt(line, 1, pq[1])
        /\ \A j \in (pq[1] + 1)..(pq[2] - 1) : line[j] = " "
        /\ IsWordAt(line, pq[2], Len(line))}

Items(d) == {d[k] : k \in 1..Len(d)}

NameAlone(name, unit) == name

NameSpaceUnit(name, unit) == name \o <<" ">> \o unit

\* every line 'name unit' of the output section has an entry with the unit
\* as its value, keyed by the name and the unit or by the name alone
LinesKeyedBy(withUnit) ==
    \A k \in 1..Len(output_data) :
        \A pq \in NameUnitSplits(output_data[k]) :
            [param |-> IF withUnit
                       THEN NameSpaceUnit(Take(output_data[k], pq[1]),
                                          Drop(output_data[k], pq[2] - 1))
                       ELSE NameAlone(Take(output_data[k], pq[1]),
                                      Drop(output_data[k], pq[2] - 1)),
             unit |-> Drop(output_data[k], pq[2] - 1)]
                \in Items(formatted_Outputs.val)

Hello_hi == <<"H", "e", "l", "l", "o", " ", "h", "i">>
Farewell_bye == <<"F", "a", "r", "e", "w", "e", "l", "l", " ", "b", "y", "e">>

Rearranged(s) ==
    { [k \in 1..Len(s) |-> s[f[k]]] : f \in Permutations(1..Len(s)) }

\* no two components of the list have the same sort key
DistinctKeys(s) ==
    \A a, b \in 1..Len(s) : a # b => SortKey(s[a]) # SortKey(s[b])

\* the components of every sort key come in the same order in both lists
SameOrderAmongEqualKeys(s, t) ==
    \A k \in 1..Len(s) : \A shunt \in BOOLEAN :
        WithKey(s, s[k].In_node, shunt) = WithKey(t, s[k].In_node, shunt)

\* C21: when the components of a circuit have pairwise distinct sort keys
\* (In_node, has-no-zero-pin flag), every permutation of the component list
\* gives the same ordered sequence and the same network matrix at every
\* frequency; in general a permutation that keeps the order of the components
\* of equal sort key gives the same ordered sequence.
C21_OrderOnlyAmongEqualKeys ==
    (pc = "export" /\ circuit.bound) =>
        /\ DistinctKeys(components) =>
              \A list \in Rearranged(components) :
                  /\ Order_components(list) = circuit.val.components_list_Ordored
                  /\ Circ_MAT_GEN(frequencies, Order_components(list))
                        = Returned(circuit.val.cascade_ABDC_mat)
        /\ \A list \in Rearranged(components) :
              \/ Order_components(list) = circuit.val.components_list_Ordored
              \/ ~SameOrderAmongEqualKeys(components, list)

\* three components of pairwise distinct sort keys, one of them reactive, given
\* in another order than the sorted one, whose matrices do not commute
C21_Witness ==
    /\ pc = "export" /\ circuit.bound
    /\ Len(components) = 3
    /\ DistinctKeys(components)
    /\ circuit.val.components_list_Ordored # components
    /\ \E k \in 1..3 : components[k].cls = "FreqDepImpedence"
    /\ \E F \in Keys(frequencies) :
          Cascade(Identity, components, F) # circuit.val.cascade_ABDC_mat[F]

====
